---- MODULE Spec2Model ----
(***************************************************************************)
(* Model of the simulated Data Clean Room of dcr.py and dcr2.py:           *)
(* SimulatedDataCleanRoom.__init__ and SimulatedDataCleanRoom.execute_query *)
(* (both versions), with the query texts of QueryGenerationAgent.          *)
(*                                                                         *)
(* A query text is a sequence of lexemes (strings).  The lexemes are cut   *)
(* so that every string the code searches for ("SELECT *", "COUNT(",       *)
(* "T1.CLICKED_AD = TRUE", ...) is a concatenation of whole lexemes and no  *)
(* lexeme overlaps such a string in any other way, so Python's             *)
(* `needle in text` is exactly containment of lexeme sequences.  Upper and  *)
(* lower case spellings of a lexeme are different strings; str.upper() is   *)
(* the table CaseTable.  Money is counted in thousandths (mills).          *)
(***************************************************************************)
EXTENDS Integers, Sequences, FiniteSets, TLC

VARIABLES
    impl,          \* which file runs: "dcr" (dcr.py) or "dcr2" (dcr2.py)
    df_a, df_b,    \* the frames handed to the constructor (df_empresa_a/b)
    dcr,           \* "none" | "ready" | "schema_error": outcome of __init__
    data_a, data_b,\* self.data_a, self.data_b (None before construction)
    pc,            \* per call: position inside execute_query
    query_sql,     \* per call: the argument
    query_normalized, \* per call: the text the checks search
    merged_data,   \* per call: local merged_data (None until the merge ran)
    result_df,     \* per call: local result_df (None until a filter ran)
    plan,          \* per call: the if/elif branch the parser took
    result,        \* per call: the returned dict (None until return)
    previous       \* the caller's record of the last call it kept

vars == <<impl, df_a, df_b, dcr, data_a, data_b, pc, query_sql,
          query_normalized, merged_data, result_df, plan, result, previous>>

\* Python's None, as a record so that it compares with frames and dicts.
None == [none |-> TRUE]

----------------------------------------------------------------------------
(* Text: lexemes, str.upper(), str.split(), `in`.                          *)

Whitespace == {" ", "\t", "\n"}

\* <<lower, as written by the agents, upper>> spellings of each lexeme.
CaseTable ==
    << <<"select", "SELECT", "SELECT">>,
       <<"from", "FROM", "FROM">>,
       <<"join", "JOIN", "JOIN">>,
       <<"on", "ON", "ON">>,
       <<"where", "WHERE", "WHERE">>,
       <<"and", "AND", "AND">>,
       <<"group", "GROUP", "GROUP">>,
       <<"by", "BY", "BY">>,
       <<"distinct", "DISTINCT", "DISTINCT">>,
       <<"count(", "COUNT(", "COUNT(">>,
       <<"sum(", "SUM(", "SUM(">>,
       <<"true", "TRUE", "TRUE">>,
       <<"table_a", "Table_A", "TABLE_A">>,
       <<"table_b", "Table_B", "TABLE_B">>,
       <<"t1", "T1", "T1">>,
       <<"t2", "T2", "T2">>,
       <<"t1.", "T1.", "T1.">>,
       <<"t2.", "T2.", "T2.">>,
       <<"email_hashed", "email_hashed", "EMAIL_HASHED">>,
       <<"user_id", "user_id", "USER_ID">>,
       <<"clicked_ad", "clicked_ad", "CLICKED_AD">>,
       <<"purchased", "purchased", "PURCHASED">>,
       <<"purchase_value", "purchase_value", "PURCHASE_VALUE">>,
       <<"city", "city", "CITY">> >>

CaseRows == 1..Len(CaseTable)

\* str.upper() of one lexeme: punctuation and whitespace are unchanged.
UpperLexeme(x) ==
    IF \E i \in CaseRows : x \in {CaseTable[i][1], CaseTable[i][2]}
    THEN CaseTable[CHOOSE i \in CaseRows :
                       x \in {CaseTable[i][1], CaseTable[i][2]}][3]
    ELSE x

\* str.lower() of one lexeme.
LowerLexeme(x) ==
    IF \E i \in CaseRows : x \in {CaseTable[i][2], CaseTable[i][3]}
    THEN CaseTable[CHOOSE i \in CaseRows :
                       x \in {CaseTable[i][2], CaseTable[i][3]}][1]
    ELSE x

\* str.upper()
Upper(s) == [i \in 1..Len(s) |-> UpperLexeme(s[i])]

Lower(s) == [i \in 1..Len(s) |-> LowerLexeme(s[i])]

\* ' '.join(s.split()): whitespace runs become one space, leading and
\* trailing whitespace goes.
SplitJoin(s) ==
    LET n == Len(s)
        word(i) == s[i] \notin Whitespace
        \* The first whitespace of a run between two words is kept.
        kept(i) == \/ word(i)
                   \/ /\ i > 1
                      /\ word(i - 1)
                      /\ \E j \in (i + 1)..n : word(j)
        at == SelectSeq([i \in 1..n |-> i], kept)
    IN  [k \in 1..Len(at) |-> IF word(at[k]) THEN s[at[k]] ELSE " "]

\* `needle in text`
Contains(text, needle) ==
    \E i \in 1..(Len(text) - Len(needle) + 1) :
        \A k \in 1..Len(needle) : text[i + k - 1] = needle[k]

----------------------------------------------------------------------------
(* Frames (pandas DataFrames): a set of column names and a sequence of     *)
(* rows, each row a function on the columns.                               *)

ColsA == {"email_hashed", "clicked_ad", "ad_campaign_id", "city"}

ColsB == {"email_hashed", "purchased", "purchase_value"}

\* frame[[columns]]: KeyError when a column is missing.
HasColumns(frame, cols) == cols \subseteq frame.cols

\* The selection left out: the frame is stored as it was handed in.
ProjectNothing(frame, cols) == frame

Project(frame, cols) ==
    [cols |-> cols,
     rows |-> [i \in 1..Len(frame.rows) |-> [c \in cols |-> frame.rows[i][c]]]]

\* Matches with the key comparison left out: every pair of rows joins.
MatchesAnyKey(lrow, right) ==
    [i \in 1..Len(right.rows) |-> lrow @@ right.rows[i]]

\* Rows of `right` whose key equals that of the left row, in order, each
\* combined with the left row (one key column, the other columns of both).
Matches(lrow, right) ==
    LET hits == SelectSeq(right.rows,
                          LAMBDA r : r.email_hashed = lrow.email_hashed)
    IN  [i \in 1..Len(hits) |-> lrow @@ hits[i]]

RECURSIVE MergeRows(_, _)
MergeRows(lrows, right) ==
    IF lrows = <<>> THEN <<>>
    ELSE Matches(Head(lrows), right) \o MergeRows(Tail(lrows), right)

\* The merge with how='left': a left row without a match is kept, its
\* right-hand columns empty (they compare unequal to True and add nothing
\* to a sum).
RECURSIVE MergeRowsLeft(_, _)
MergeRowsLeft(lrows, right) ==
    IF lrows = <<>> THEN <<>>
    ELSE (IF Matches(Head(lrows), right) # <<>>
          THEN Matches(Head(lrows), right)
          ELSE <<Head(lrows) @@ [purchased |-> FALSE, purchase_value |-> 0]>>)
         \o MergeRowsLeft(Tail(lrows), right)

MergeLeft(left, right) ==
    [cols |-> left.cols \cup right.cols,
     rows |-> MergeRowsLeft(left.rows, right)]

\* pd.merge(left, right, on='email_hashed', how='inner')
Merge(left, right) ==
    [cols |-> left.cols \cup right.cols,
     rows |-> MergeRows(left.rows, right)]

\* Filter with one key value written into the mask.
FilterExcludingKey(frame, byClicked, byPurchased) ==
    [cols |-> frame.cols,
     rows |-> SelectSeq(frame.rows,
                  LAMBDA r : /\ (byClicked => r.clicked_ad = TRUE)
                             /\ (byPurchased => r.purchased = TRUE)
                             /\ r.email_hashed # "k1")]

\* merged_data[(clicked_ad == True) & (purchased == True)], and the two
\* one-column forms; (FALSE, FALSE) keeps the frame.
Filter(frame, byClicked, byPurchased) ==
    [cols |-> frame.cols,
     rows |-> SelectSeq(frame.rows,
                  LAMBDA r : /\ (byClicked => r.clicked_ad = TRUE)
                             /\ (byPurchased => r.purchased = TRUE))]

RECURSIVE SumValues(_)
SumValues(rows) ==
    IF rows = <<>> THEN 0
    ELSE Head(rows).purchase_value + SumValues(Tail(rows))

\* round(x, 2) on mills: to the nearest 10 mills, a tie to the even cent.
Round2(m) ==
    LET q == m \div 10
        r == m % 10
    IN  IF r < 5 THEN 10 * q
        ELSE IF r > 5 THEN 10 * (q + 1)
        ELSE IF q % 2 = 0 THEN 10 * q ELSE 10 * (q + 1)

\* CityCounts grouping on the key column instead of city.
CityCountsByKey(rows) ==
    [k \in {rows[i].email_hashed : i \in 1..Len(rows)} |->
        Cardinality({i \in 1..Len(rows) : rows[i].email_hashed = k})]

\* result_df.groupby('city').size().to_dict()  (dcr2.py) and
\* result_df['city'].value_counts().to_dict()  (dcr.py): the same mapping.
CityCounts(rows) ==
    [c \in {rows[i].city : i \in 1..Len(rows)} |->
        Cardinality({i \in 1..Len(rows) : rows[i].city = c})]

----------------------------------------------------------------------------
(* The strings execute_query searches for.                                 *)

SelectStar == <<"SELECT", " ", "*">>

SelectEmailHashed == <<"SELECT", " ", "EMAIL_HASHED">>

SelectUserId == <<"SELECT", " ", "USER_ID">>

CountDistinctT1 == <<"COUNT(", "DISTINCT", " ", "T1.", "EMAIL_HASHED", ")">>

CountDistinctPlain == <<"COUNT(", "DISTINCT", " ", "EMAIL_HASHED", ")">>

T1ClickedTrue == <<"T1.", "CLICKED_AD", " ", "=", " ", "TRUE">>

T2PurchasedTrue == <<"T2.", "PURCHASED", " ", "=", " ", "TRUE">>

ClickedTrue == <<"CLICKED_AD", " ", "=", " ", "TRUE">>

PurchasedTrue == <<"PURCHASED", " ", "=", " ", "TRUE">>

GroupByT1City == <<"GROUP", " ", "BY", " ", "T1.", "CITY">>

GroupByCity == <<"GROUP", " ", "BY", " ", "CITY">>

SumT2 == <<"SUM(", "T2.", "PURCHASE_VALUE", ")">>

SumPlain == <<"SUM(", "PURCHASE_VALUE", ")">>

SelectT1City == <<"SELECT", " ", "T1.", "CITY">>

CountOpen == <<"COUNT(">>

EmailHashed == <<"EMAIL_HASHED">>

SumOpen == <<"SUM(">>

PurchaseValue == <<"PURCHASE_VALUE">>

\* dcr.py searches the upper-cased text for a string with a lower-case
\* column name.
CountDistinctLower == <<"COUNT(", "DISTINCT", " ", "email_hashed", ")">>

WhereBoth ==
    <<"WHERE", " ">> \o T1ClickedTrue \o <<" ", "AND", " ">> \o T2PurchasedTrue

----------------------------------------------------------------------------
(* execute_query, piece by piece.                                          *)

\* Normalize without the whitespace normalisation, in both versions.
NormalizeCaseOnly(version, q) == Upper(q)

\* dcr2.py line 55; dcr.py has no normalisation and searches
\* query_sql.upper().
Normalize(version, q) ==
    IF version = "dcr2" THEN Upper(SplitJoin(q)) ELSE Upper(q)

\* The security rule: dcr2.py line 58, dcr.py line 53.
PrivacyViolation(qn) ==
    \/ Contains(qn, SelectStar)
    \/ Contains(qn, SelectEmailHashed)
    \/ Contains(qn, SelectUserId)

PrivacyError ==
    [error |-> [msg |-> "Consulta violou as regras de privacidade: nao é permitido selecionar dados brutos ou identificadores diretos."]]

\* Number of characters of an upper-case lexeme.
Width(x) ==
    CASE x \in {"ON", "BY", "T1", "T2"} -> 2
      [] x \in {"AND", "T1.", "T2."} -> 3
      [] x \in {"FROM", "JOIN", "TRUE", "CITY", "SUM("} -> 4
      [] x \in {"WHERE", "GROUP"} -> 5
      [] x \in {"SELECT", "COUNT("} -> 6
      [] x \in {"TABLE_A", "TABLE_B", "USER_ID"} -> 7
      [] x = "DISTINCT" -> 8
      [] x = "PURCHASED" -> 9
      [] x = "CLICKED_AD" -> 10
      [] x = "EMAIL_HASHED" -> 12
      [] x = "PURCHASE_VALUE" -> 14
      [] OTHER -> 1

ErrorTextLimit == 200

\* Number of characters of the lexemes lo..hi of a text.
RECURSIVE Chars(_, _, _)
Chars(text, lo, hi) ==
    IF lo > hi THEN 0
    ELSE IF lo = hi THEN Width(text[lo])
    ELSE LET mid == (lo + hi) \div 2
         IN  Chars(text, lo, mid) + Chars(text, mid + 1, hi)

\* text[:n]: the lexemes that fit whole, and how many characters of the
\* next lexeme are kept.
Slice(text, n) ==
    LET whole == CHOOSE i \in 0..Len(text) :
                    /\ Chars(text, 1, i) <= n
                    /\ i < Len(text) => Chars(text, 1, i + 1) > n
    IN  [text |-> SubSeq(text, 1, whole),
         cut |-> IF whole = Len(text) THEN 0 ELSE n - Chars(text, 1, whole)]

\* dcr2.py line 139.
UnrecognizedError2(qn) ==
    [error |-> [msg |-> "Consulta SQL nao reconhecida pelo parser. Query normalizada: ",
                query |-> Slice(qn, ErrorTextLimit),
                tail |-> "..."]]

\* dcr.py line 92.
UnrecognizedError1 ==
    [error |-> [msg |-> "Consulta SQL nao suportada pela DCR simulada ou formato incorreto. Certifique-se de usar T1 para dados do anunciante e T2 para dados do varejista."]]

\* What one if/elif branch does: whether it assigns result_df, the filter
\* it applies to merged_data, and the result it builds.
Branch(name, assigns, byClicked, byPurchased, shape) ==
    [branch |-> name, assigns |-> assigns, byClicked |-> byClicked,
     byPurchased |-> byPurchased, shape |-> shape]

Unrecognized == Branch("none", FALSE, FALSE, FALSE, "unrecognized")

\* The chain with the WHERE tests left out: every branch aggregates
\* merged_data as it is.
Parse2Unfiltered(qn) ==
    IF Contains(qn, CountDistinctT1) \/ Contains(qn, CountDistinctPlain) THEN
        IF Contains(qn, GroupByT1City) \/ Contains(qn, GroupByCity)
        THEN Branch("1", FALSE, FALSE, FALSE, "city_distribution")
        ELSE Branch("1", FALSE, FALSE, FALSE, "count")
    ELSE IF Contains(qn, SumT2) \/ Contains(qn, SumPlain) THEN
        Branch("2", FALSE, FALSE, FALSE, "sum_value")
    ELSE Unrecognized

\* dcr2.py lines 72-139: the chain of if/elif on query_normalized.
Parse2(qn) ==
    LET both == Contains(qn, T1ClickedTrue) /\ Contains(qn, T2PurchasedTrue)
    IN
    IF Contains(qn, CountDistinctT1) \/ Contains(qn, CountDistinctPlain) THEN
        IF both THEN
            IF Contains(qn, GroupByT1City) \/ Contains(qn, GroupByCity)
            THEN Branch("1", TRUE, TRUE, TRUE, "city_distribution")
            ELSE Branch("1", TRUE, TRUE, TRUE, "count")
        ELSE Branch("1", FALSE, FALSE, FALSE, "count")
    ELSE IF Contains(qn, SumT2) \/ Contains(qn, SumPlain) THEN
        Branch("2", TRUE, both, both, "sum_value")
    ELSE IF Contains(qn, SelectT1City) /\ Contains(qn, CountDistinctT1) THEN
        Branch("3", TRUE, both, both, "city_distribution")
    ELSE IF Contains(qn, CountOpen) /\ Contains(qn, EmailHashed) THEN
        Branch("4", TRUE, Contains(qn, ClickedTrue),
               Contains(qn, PurchasedTrue), "count")
    ELSE IF Contains(qn, SumOpen) /\ Contains(qn, PurchaseValue) THEN
        Branch("5", TRUE, Contains(qn, ClickedTrue),
               Contains(qn, PurchasedTrue), "sum_value")
    ELSE Unrecognized

\* dcr.py lines 70-92.
Parse1(qn) ==
    IF Contains(qn, CountDistinctLower) /\ Contains(qn, WhereBoth) THEN
        Branch("1", TRUE, TRUE, TRUE, "count")
    ELSE IF Contains(qn, SumT2) /\ Contains(qn, WhereBoth) THEN
        Branch("2", TRUE, TRUE, TRUE, "sum_value")
    ELSE IF /\ Contains(qn, CountDistinctLower)
            /\ Contains(qn, GroupByT1City)
            /\ Contains(qn, WhereBoth) THEN
        Branch("3", TRUE, TRUE, TRUE, "city_distribution")
    ELSE Unrecognized

Parse(version, qn) == IF version = "dcr2" THEN Parse2(qn) ELSE Parse1(qn)

UnrecognizedError(version, qn) ==
    IF version = "dcr2" THEN UnrecognizedError2(qn) ELSE UnrecognizedError1

\* The frame a branch aggregates: result_df when it assigns one
\* (dcr2.py lines 75, 92-94, 104-106, 117-121, 127-131), else merged_data
\* itself (line 87).
ApplyFilter(p, merged) == Filter(merged, p.byClicked, p.byPurchased)

\* A purchase_value cell that holds a number.  A cell that holds a str
\* instead is written as a negative amount.
IsNumber(v) == v >= 0

Summable(rows) == \A i \in 1..Len(rows) : IsNumber(rows[i].purchase_value)

\* An exception on its way out of the try block.
Raised(kind) == [raised |-> kind]

\* dcr2.py line 142, dcr.py line 95.
InternalError(kind) ==
    [error |-> [msg |-> "Erro inesperado durante a execucao da consulta: ",
                detail |-> kind]]

\* The handler with the exception passed on to the caller.
Reraise(r) == r

\* except Exception as e: an exception becomes the error dict.
Except(r) ==
    IF "raised" \in DOMAIN r THEN InternalError(r.raised) ELSE r

\* The return statements of the branches.  Summing or rounding a column
\* with a str in it raises TypeError.
Aggregate(shape, frame) ==
    CASE shape = "count" ->
            [type |-> "count", value |-> Len(frame.rows)]
      [] shape = "sum_value" ->
            IF frame.rows = <<>> THEN [type |-> "sum_value", value |-> 0]
            ELSE IF Summable(frame.rows)
            THEN [type |-> "sum_value",
                  value |-> Round2(SumValues(frame.rows))]
            ELSE Raised("TypeError")
      [] shape = "city_distribution" ->
            [type |-> "city_distribution",
             value |-> IF frame.rows # <<>>
                       THEN CityCounts(frame.rows) ELSE <<>>]

\* What the branch p returns on the frames a and b: the merge, the
\* branch's filter, its return statement.
BranchResult(p, a, b) ==
    LET merged == Merge(a, b)
    IN  Except(Aggregate(p.shape,
                         IF p.assigns THEN ApplyFilter(p, merged)
                         ELSE merged))

\* execute_query behind its normalisation, as a function of the
\* normalised text and the instance's frames.
ExecuteNormalized(version, qn, a, b) ==
    LET p == Parse(version, qn)
    IN  IF PrivacyViolation(qn) THEN PrivacyError
        ELSE IF p.shape = "unrecognized" THEN UnrecognizedError(version, qn)
        ELSE BranchResult(p, a, b)

\* execute_query as a function of its argument and the instance's frames.
ExecuteQuery(version, q, a, b) ==
    ExecuteNormalized(version, Normalize(version, q), a, b)

----------------------------------------------------------------------------
(* Query texts.  A request says what a text asks for; Text writes it out   *)
(* the way QueryGenerationAgent.generate_query writes its queries.         *)

Indent == 12

Pad == [i \in 1..Indent |-> " "]

\* A column reference, with or without its table alias.
Col(alias, name, aliased) == IF aliased THEN <<alias, name>> ELSE <<name>>

Item(item, aliased) ==
    CASE item = "key" -> Col("T1.", "email_hashed", aliased)
      [] item = "uid" -> Col("T1.", "user_id", aliased)
      [] item = "star" -> <<"*">>
      [] item = "city" -> Col("T1.", "city", aliased)
      [] item = "countd" -> <<"COUNT(", "DISTINCT", " ">>
                            \o Col("T1.", "email_hashed", aliased) \o <<")">>
      [] item = "countk" -> <<"COUNT(">>
                            \o Col("T1.", "email_hashed", aliased) \o <<")">>
      [] item = "sum" -> <<"SUM(">>
                         \o Col("T2.", "purchase_value", aliased) \o <<")">>
      [] item = "sumd" -> <<"SUM(", "DISTINCT", " ">>
                          \o Col("T2.", "purchase_value", aliased) \o <<")">>

RECURSIVE SelectList(_, _)
SelectList(items, aliased) ==
    IF Len(items) = 1 THEN Item(items[1], aliased)
    ELSE Item(items[1], aliased) \o <<",", " ">>
         \o SelectList(Tail(items), aliased)

SelectLine(req) == <<"SELECT", " ">> \o SelectList(req.sel, req.aSel)

FromLine == <<"FROM", " ", "Table_A", " ", "T1">>

JoinLine ==
    <<"JOIN", " ", "Table_B", " ", "T2", " ", "ON", " ",
      "T1.", "email_hashed", " ", "=", " ", "T2.", "email_hashed">>

ClickedPredicate(aliased) ==
    Col("T1.", "clicked_ad", aliased) \o <<" ", "=", " ", "TRUE">>

PurchasedPredicate(aliased) ==
    Col("T2.", "purchased", aliased) \o <<" ", "=", " ", "TRUE">>

WhereLine(req) ==
    <<"WHERE", " ">>
    \o (IF req.clicked THEN ClickedPredicate(req.aPred) ELSE <<>>)
    \o (IF req.clicked /\ req.purchased THEN <<" ", "AND", " ">> ELSE <<>>)
    \o (IF req.purchased THEN PurchasedPredicate(req.aPred) ELSE <<>>)

GroupLine(req) == <<"GROUP", " ", "BY", " ">> \o Col("T1.", "city", req.aSel)

Lines(req) ==
    <<SelectLine(req), FromLine, JoinLine>>
    \o (IF req.clicked \/ req.purchased THEN <<WhereLine(req)>> ELSE <<>>)
    \o (IF req.group THEN <<GroupLine(req)>> ELSE <<>>)

\* A triple-quoted string of generate_query: every line on a new line
\* behind twelve spaces, and the closing quotes on a line of their own.
RECURSIVE LayoutAgent(_)
LayoutAgent(lines) ==
    IF lines = <<>> THEN <<"\n">> \o Pad
    ELSE <<"\n">> \o Pad \o Head(lines) \o LayoutAgent(Tail(lines))

\* The same lines on one line, one space apart.
RECURSIVE LayoutFlat(_)
LayoutFlat(lines) ==
    IF Len(lines) = 1 THEN lines[1]
    ELSE lines[1] \o <<" ">> \o LayoutFlat(Tail(lines))

Styles == {"agent", "flat"}

Text(req, style) ==
    IF style = "agent" THEN LayoutAgent(Lines(req))
    ELSE Upper(LayoutFlat(Lines(req)))

Request(sel, aSel, aPred, clicked, purchased, group) ==
    [sel |-> sel, aSel |-> aSel, aPred |-> aPred, clicked |-> clicked,
     purchased |-> purchased, group |-> group]

\* The four queries of dcr2.py's generate_query, by the branch that
\* writes them.
GenerateQuery2(goal) ==
    CASE goal = "count" ->
            Text(Request(<<"countd">>, TRUE, TRUE, TRUE, TRUE, FALSE), "agent")
      [] goal = "sum" ->
            Text(Request(<<"sum">>, TRUE, TRUE, TRUE, TRUE, FALSE), "agent")
      [] goal = "city" ->
            Text(Request(<<"city", "countd">>, TRUE, TRUE, TRUE, TRUE, TRUE),
                 "agent")
      [] goal = "emails" ->
            Text(Request(<<"key">>, FALSE, FALSE, FALSE, FALSE, FALSE), "agent")

Goals2 == {"count", "sum", "city", "emails"}

\* Append to the last line.
WithSemicolon(lines) ==
    [i \in 1..Len(lines) |->
        IF i = Len(lines) THEN lines[i] \o <<";">> ELSE lines[i]]

\* The three queries of dcr.py's generate_query: as above, closed by ";".
GenerateQuery1(goal) ==
    CASE goal = "count" ->
            LayoutAgent(WithSemicolon(Lines(
                Request(<<"countd">>, TRUE, TRUE, TRUE, TRUE, FALSE))))
      [] goal = "sum" ->
            LayoutAgent(WithSemicolon(Lines(
                Request(<<"sum">>, TRUE, TRUE, TRUE, TRUE, FALSE))))
      [] goal = "city" ->
            LayoutAgent(WithSemicolon(Lines(
                Request(<<"city", "countd">>, TRUE, TRUE, TRUE, TRUE, TRUE))))

Goals1 == {"count", "sum", "city"}

AgentQueries ==
    {GenerateQuery2(g) : g \in Goals2} \cup {GenerateQuery1(g) : g \in Goals1}

\* Select lists of the query texts submitted to execute_query.
SelectLists ==
    { <<"countd">>, <<"sum">>, <<"city", "countd">>, <<"key">>, <<"uid">>,
      <<"star">>, <<"city">>, <<"countk">>, <<"sumd">>, <<"city", "key">>,
      <<"countd", "key">>, <<"city", "uid">>, <<"city", "star">>,
      <<"sum", "countd">> }

AllRequests ==
    [sel : SelectLists, aSel : BOOLEAN, aPred : BOOLEAN, clicked : BOOLEAN,
     purchased : BOOLEAN, group : BOOLEAN]

\* The three shapes, written with aliases throughout or without any.
CoreRequests ==
    {r \in AllRequests :
        /\ r.sel \in {<<"countd">>, <<"sum">>, <<"city", "countd">>}
        /\ r.aSel = r.aPred
        /\ r.group = (r.sel = <<"city", "countd">>)}

AllQueries ==
    {Text(r, st) : r \in AllRequests, st \in Styles} \cup AgentQueries

CoreQueries == {Text(r, "agent") : r \in CoreRequests} \cup AgentQueries

----------------------------------------------------------------------------
(* The frames handed to the constructor: rows as generate_sample_data      *)
(* builds them, with the source columns user_id and email_original.        *)

MaxRows == 2

RowA(user, key, city, clicked) ==
    [user_id |-> user, email_original |-> user, email_hashed |-> key,
     city |-> city, clicked_ad |-> clicked, ad_campaign_id |-> "camp_a"]

RowB(user, key, purchased, value) ==
    [user_id |-> user, email_original |-> user, email_hashed |-> key,
     purchased |-> purchased, purchase_value |-> value]

SourceColsA == ColsA \cup {"user_id", "email_original"}

SourceColsB == ColsB \cup {"user_id", "email_original"}

\* Two advertiser rows share the key k2; so do two retailer rows.
RowsA ==
    { RowA("user_1", "k1", "X", TRUE),
      RowA("user_2", "k2", "Y", FALSE),
      RowA("user_3", "k2", "Y", TRUE) }

RowsB ==
    { RowB("user_b_1", "k1", TRUE, 100000),
      RowB("user_b_2", "k2", TRUE, 50000),
      RowB("user_b_3", "k2", FALSE, 12344) }

\* Sequences of at most n different elements of S.
SeqsUpTo(S, n) ==
    UNION {{s \in [1..k -> S] : \A i, j \in 1..k : s[i] = s[j] => i = j} :
           k \in 0..n}

FramesA == {[cols |-> SourceColsA, rows |-> s] : s \in SeqsUpTo(RowsA, MaxRows)}

FramesB == {[cols |-> SourceColsB, rows |-> s] : s \in SeqsUpTo(RowsB, MaxRows)}

\* A frame without one of the columns the constructor selects.
Without(frame, col) ==
    [cols |-> frame.cols \ {col},
     rows |-> [i \in 1..Len(frame.rows) |->
                  [c \in frame.cols \ {col} |-> frame.rows[i][c]]]]

FixtureA ==
    [cols |-> SourceColsA,
     rows |-> <<RowA("user_1", "k1", "X", TRUE),
                RowA("user_2", "k2", "Y", FALSE)>>]

FixtureB ==
    [cols |-> SourceColsB,
     rows |-> <<RowB("user_b_1", "k1", TRUE, 100000),
                RowB("user_b_2", "k2", TRUE, 50000)>>]

\* Both sides hold the key k2 twice: the join has every combination of
\* clicked_ad and purchased.
FanOutA ==
    [cols |-> SourceColsA,
     rows |-> <<RowA("user_2", "k2", "Y", FALSE),
                RowA("user_3", "k2", "Y", TRUE)>>]

FanOutB ==
    [cols |-> SourceColsB,
     rows |-> <<RowB("user_b_2", "k2", TRUE, 50000),
                RowB("user_b_3", "k2", FALSE, 12344)>>]

DisjointA ==
    [cols |-> SourceColsA, rows |-> <<RowA("user_1", "k1", "X", TRUE)>>]

DisjointB ==
    [cols |-> SourceColsB, rows |-> <<RowB("user_b_2", "k2", TRUE, 50000)>>]

Fixtures ==
    {<<FixtureA, FixtureB>>, <<FanOutA, FanOutB>>, <<DisjointA, DisjointB>>}

\* A purchase_value column with a str in the row of k1.
IllTypedA ==
    [cols |-> SourceColsA,
     rows |-> <<RowA("user_1", "k1", "X", TRUE),
                RowA("user_3", "k2", "Y", TRUE)>>]

IllTypedB ==
    [cols |-> SourceColsB,
     rows |-> <<RowB("user_b_1", "k1", FALSE, -1),
                RowB("user_b_2", "k2", TRUE, 50000)>>]

Inputs ==
    (FramesA \X FramesB)
    \cup {<<Without(FixtureA, "city"), FixtureB>>,
          <<FixtureA, Without(FixtureB, "purchase_value")>>,
          <<IllTypedA, IllTypedB>>}

\* The query texts submitted to an instance: every text on the fixtures,
\* the core texts on every other pair of frames.
Workload(a, b) ==
    IF <<a, b>> \in Fixtures THEN AllQueries ELSE CoreQueries

----------------------------------------------------------------------------
(* The state machine.                                                      *)

Versions == {"dcr", "dcr2"}

Callers == {1, 2}

\* The Streamlit script calls execute_query from one place, one call at a
\* time.
Sequential == {1}

Idle == [c \in Callers |-> None]

Init ==
    /\ impl \in Versions
    /\ \E in \in Inputs : df_a = in[1] /\ df_b = in[2]
    /\ dcr = "none"
    /\ data_a = None
    /\ data_b = None
    /\ pc = [c \in Callers |-> "idle"]
    /\ query_sql = Idle
    /\ query_normalized = Idle
    /\ merged_data = Idle
    /\ result_df = Idle
    /\ plan = Idle
    /\ result = Idle
    /\ previous = None

\* __init__ without the KeyError: the columns that are there are selected
\* and the instance is handed out.
ConstructUnchecked ==
    /\ dcr = "none"
    /\ data_a' = Project(df_a, ColsA \cap df_a.cols)
    /\ data_b' = Project(df_b, ColsB \cap df_b.cols)
    /\ dcr' = "ready"
    /\ UNCHANGED <<impl, df_a, df_b, previous, pc, query_sql,
                   query_normalized, merged_data, result_df, plan, result>>

\* SimulatedDataCleanRoom.__init__
Construct ==
    /\ dcr = "none"
    /\ \/ /\ HasColumns(df_a, ColsA)
          /\ HasColumns(df_b, ColsB)
          /\ data_a' = Project(df_a, ColsA)
          /\ data_b' = Project(df_b, ColsB)
          /\ dcr' = "ready"
       \/ /\ ~(HasColumns(df_a, ColsA) /\ HasColumns(df_b, ColsB))
          /\ data_a' = IF HasColumns(df_a, ColsA)
                       THEN Project(df_a, ColsA) ELSE None
          /\ data_b' = None
          /\ dcr' = "schema_error"
    /\ UNCHANGED <<impl, df_a, df_b, previous, pc, query_sql, query_normalized,
                   merged_data, result_df, plan, result>>

\* Call with the merge done on entry, ahead of the security rule.
CallMergingFirst(c) ==
    /\ dcr = "ready"
    /\ pc[c] = "idle"
    /\ \E q \in Workload(df_a, df_b) :
          /\ query_sql' = [query_sql EXCEPT ![c] = q]
          /\ query_normalized' =
                [query_normalized EXCEPT ![c] = Normalize(impl, q)]
    /\ merged_data' = [merged_data EXCEPT ![c] = Merge(data_a, data_b)]
    /\ pc' = [pc EXCEPT ![c] = "guard"]
    /\ UNCHANGED <<impl, df_a, df_b, previous, dcr, data_a, data_b,
                   result_df, plan, result>>

\* Call with the normalised text kept in one place for all calls (an
\* attribute of the instance instead of a local).
CallSharingText(c) ==
    /\ dcr = "ready"
    /\ pc[c] = "idle"
    /\ \E q \in Workload(df_a, df_b) :
          /\ query_sql' = [query_sql EXCEPT ![c] = q]
          /\ query_normalized' = [x \in Callers |-> Normalize(impl, q)]
    /\ pc' = [pc EXCEPT ![c] = "guard"]
    /\ UNCHANGED <<impl, df_a, df_b, previous, dcr, data_a, data_b, merged_data,
                   result_df, plan, result>>

\* execute_query is entered with a query text; the text is normalised.
Call(c) ==
    /\ dcr = "ready"
    /\ pc[c] = "idle"
    /\ \E q \in Workload(df_a, df_b) :
          /\ query_sql' = [query_sql EXCEPT ![c] = q]
          /\ query_normalized' =
                [query_normalized EXCEPT ![c] = Normalize(impl, q)]
    /\ pc' = [pc EXCEPT ![c] = "guard"]
    /\ UNCHANGED <<impl, df_a, df_b, previous, dcr, data_a, data_b, merged_data,
                   result_df, plan, result>>

\* The security rule emptying the instance's frames when it rejects.
GuardWiping(c) ==
    /\ pc[c] = "guard"
    /\ \/ /\ PrivacyViolation(query_normalized[c])
          /\ result' = [result EXCEPT ![c] = PrivacyError]
          /\ pc' = [pc EXCEPT ![c] = "returned"]
          /\ data_a' = [data_a EXCEPT !.rows = <<>>]
          /\ data_b' = [data_b EXCEPT !.rows = <<>>]
       \/ /\ ~PrivacyViolation(query_normalized[c])
          /\ result' = result
          /\ pc' = [pc EXCEPT ![c] = "merge"]
          /\ UNCHANGED <<data_a, data_b>>
    /\ UNCHANGED <<impl, df_a, df_b, previous, dcr, query_sql,
                   query_normalized, merged_data, result_df, plan>>

\* The security rule: return the privacy error, or go on to the merge.
Guard(c) ==
    /\ pc[c] = "guard"
    /\ \/ /\ PrivacyViolation(query_normalized[c])
          /\ result' = [result EXCEPT ![c] = PrivacyError]
          /\ pc' = [pc EXCEPT ![c] = "returned"]
       \/ /\ ~PrivacyViolation(query_normalized[c])
          /\ result' = result
          /\ pc' = [pc EXCEPT ![c] = "merge"]
    /\ UNCHANGED <<impl, df_a, df_b, previous, dcr, data_a, data_b, query_sql,
                   query_normalized, merged_data, result_df, plan>>

\* The merge written back into the instance (self.data_a = merged_data).
MergeDataInPlace(c) ==
    /\ pc[c] = "merge"
    /\ merged_data' = [merged_data EXCEPT ![c] = Merge(data_a, data_b)]
    /\ data_a' = Merge(data_a, data_b)
    /\ pc' = [pc EXCEPT ![c] = "parse"]
    /\ UNCHANGED <<impl, df_a, df_b, previous, dcr, data_b, query_sql,
                   query_normalized, result_df, plan, result>>

\* merged_data = pd.merge(...)
MergeData(c) ==
    /\ pc[c] = "merge"
    /\ merged_data' = [merged_data EXCEPT ![c] = Merge(data_a, data_b)]
    /\ pc' = [pc EXCEPT ![c] = "parse"]
    /\ UNCHANGED <<impl, df_a, df_b, previous, dcr, data_a, data_b, query_sql,
                   query_normalized, result_df, plan, result>>

\* The if/elif chain picks a branch, which filters merged_data into
\* result_df; no branch: the unrecognized-query error is returned.
ParseQuery(c) ==
    /\ pc[c] = "parse"
    /\ LET p == Parse(impl, query_normalized[c])
       IN  \/ /\ p.shape = "unrecognized"
              /\ result' = [result EXCEPT ![c] =
                               UnrecognizedError(impl, query_normalized[c])]
              /\ pc' = [pc EXCEPT ![c] = "returned"]
              /\ UNCHANGED <<plan, result_df>>
           \/ /\ p.shape # "unrecognized"
              /\ plan' = [plan EXCEPT ![c] = p]
              /\ result_df' = [result_df EXCEPT ![c] =
                                  IF p.assigns
                                  THEN ApplyFilter(p, merged_data[c])
                                  ELSE None]
              /\ pc' = [pc EXCEPT ![c] = "aggregate"]
              /\ result' = result
    /\ UNCHANGED <<impl, df_a, df_b, previous, dcr, data_a, data_b, query_sql,
                   query_normalized, merged_data>>

\* The branch's return statement, or the handler's when it raises.
ReturnAggregate(c) ==
    /\ pc[c] = "aggregate"
    /\ result' = [result EXCEPT ![c] =
                     Except(Aggregate(plan[c].shape,
                                      IF plan[c].assigns THEN result_df[c]
                                      ELSE merged_data[c]))]
    /\ pc' = [pc EXCEPT ![c] = "returned"]
    /\ UNCHANGED <<impl, df_a, df_b, previous, dcr, data_a, data_b, query_sql,
                   query_normalized, merged_data, result_df, plan>>

\* The caller has the result; the call's locals are gone.
Finish(c) ==
    /\ pc[c] = "returned"
    /\ pc' = [pc EXCEPT ![c] = "idle"]
    /\ query_sql' = [query_sql EXCEPT ![c] = None]
    /\ query_normalized' = [query_normalized EXCEPT ![c] = None]
    /\ merged_data' = [merged_data EXCEPT ![c] = None]
    /\ result_df' = [result_df EXCEPT ![c] = None]
    /\ plan' = [plan EXCEPT ![c] = None]
    /\ result' = [result EXCEPT ![c] = None]
    /\ UNCHANGED <<impl, df_a, df_b, previous, dcr, data_a, data_b>>

\* As Finish, with the caller keeping what it asked and what it got (the
\* script's generated_query_sql and dcr_output), and whether the call had
\* reached pd.merge.
Keep(c) ==
    /\ pc[c] = "returned"
    /\ previous' = [query |-> query_sql[c], result |-> result[c],
                    merged |-> merged_data[c] # None]
    /\ pc' = [pc EXCEPT ![c] = "idle"]
    /\ query_sql' = [query_sql EXCEPT ![c] = None]
    /\ query_normalized' = [query_normalized EXCEPT ![c] = None]
    /\ merged_data' = [merged_data EXCEPT ![c] = None]
    /\ result_df' = [result_df EXCEPT ![c] = None]
    /\ plan' = [plan EXCEPT ![c] = None]
    /\ result' = [result EXCEPT ![c] = None]
    /\ UNCHANGED <<impl, df_a, df_b, dcr, data_a, data_b>>

ExecuteStep(c) ==
    \/ Call(c)
    \/ Guard(c)
    \/ MergeData(c)
    \/ ParseQuery(c)
    \/ ReturnAggregate(c)
    \/ Finish(c)

Next == Construct \/ \E c \in Sequential : ExecuteStep(c)

Spec == Init /\ [][Next]_vars

\* Two stores outside the fixtures: one with unique keys, one in which
\* two retailer rows share the key of an advertiser row.
ConcurrentStores ==
    { <<[cols |-> SourceColsA,
         rows |-> <<RowA("user_1", "k1", "X", TRUE),
                    RowA("user_3", "k2", "Y", TRUE)>>],
        [cols |-> SourceColsB,
         rows |-> <<RowB("user_b_1", "k1", TRUE, 100000),
                    RowB("user_b_3", "k2", FALSE, 12344)>>]>>,
      <<[cols |-> SourceColsA,
         rows |-> <<RowA("user_1", "k1", "X", TRUE),
                    RowA("user_3", "k2", "Y", TRUE)>>],
        [cols |-> SourceColsB,
         rows |-> <<RowB("user_b_2", "k2", TRUE, 50000),
                    RowB("user_b_3", "k2", FALSE, 12344)>>]>> }

\* The same and three more: no advertiser row, one joined record that
\* neither clicked nor purchased, a key twice on both sides.
SessionStores ==
    ConcurrentStores
    \cup { <<[cols |-> SourceColsA, rows |-> <<>>],
             [cols |-> SourceColsB,
              rows |-> <<RowB("user_b_1", "k1", TRUE, 100000)>>]>>,
           <<[cols |-> SourceColsA,
              rows |-> <<RowA("user_2", "k2", "Y", FALSE)>>],
             [cols |-> SourceColsB,
              rows |-> <<RowB("user_b_3", "k2", FALSE, 12344)>>]>>,
           <<[cols |-> SourceColsA,
              rows |-> <<RowA("user_3", "k2", "Y", TRUE),
                         RowA("user_2", "k2", "Y", FALSE)>>],
             [cols |-> SourceColsB,
              rows |-> <<RowB("user_b_3", "k2", FALSE, 12344),
                         RowB("user_b_2", "k2", TRUE, 50000)>>]>> }

SessionInit == Init /\ <<df_a, df_b>> \in SessionStores

\* One call after another on one instance, the caller keeping the last
\* query and its result.
SessionStep(c) ==
    \/ Call(c)
    \/ Guard(c)
    \/ MergeData(c)
    \/ ParseQuery(c)
    \/ ReturnAggregate(c)
    \/ Keep(c)

SessionNext == Construct \/ \E c \in Sequential : SessionStep(c)

SessionSpec == SessionInit /\ [][SessionNext]_vars

\* Calls of two callers on one instance, interleaved step by step.
ConcurrentNext == Construct \/ \E c \in Callers : ExecuteStep(c)

ConcurrentInit == Init /\ <<df_a, df_b>> \in ConcurrentStores

ConcurrentSpec == ConcurrentInit /\ [][ConcurrentNext]_vars

----------------------------------------------------------------------------
(* What a query text asks for, read off the text itself (independently    *)
(* of the parser), and comparison of returned dicts.                       *)

\* The text in one spelling: upper case, single spaces.
Canon(q) == Upper(SplitJoin(q))

\* Position of the first occurrence of a lexeme, or one past the end.
FirstAt(t, x) ==
    IF \E i \in 1..Len(t) : t[i] = x
    THEN CHOOSE i \in 1..Len(t) : t[i] = x /\ \A j \in 1..(i - 1) : t[j] # x
    ELSE Len(t) + 1

\* The select list names email_hashed, user_id or * as a column of its
\* own (not as the argument of COUNT or SUM), aliased or not, anywhere.
ProjectsRawColumn(q) ==
    LET t == Canon(q)
        from == FirstAt(t, "FROM")
        sel == FirstAt(t, "SELECT")
        opened(i) == Cardinality({j \in (sel + 1)..(i - 1) :
                                     t[j] \in {"COUNT(", "SUM("}})
        closed(i) == Cardinality({j \in (sel + 1)..(i - 1) : t[j] = ")"})
    IN  \E i \in (sel + 1)..(from - 1) :
            /\ t[i] \in {"EMAIL_HASHED", "USER_ID", "*"}
            /\ opened(i) = closed(i)

AsksCountDistinct(q) ==
    Contains(Canon(q), CountDistinctT1) \/ Contains(Canon(q), CountDistinctPlain)

AsksGroupByCity(q) ==
    Contains(Canon(q), GroupByT1City) \/ Contains(Canon(q), GroupByCity)

AsksSum(q) == Contains(Canon(q), SumT2) \/ Contains(Canon(q), SumPlain)

\* The predicate is in the text, with or without its alias.
AsksClicked(q) == Contains(Canon(q), ClickedTrue)

AsksPurchased(q) == Contains(Canon(q), PurchasedTrue)

IsTyped(r) == DOMAIN r = {"type", "value"}

IsError(r) == DOMAIN r = {"error"}

\* Equality of two returned dicts.
SameResult(r1, r2) ==
    /\ DOMAIN r1 = DOMAIN r2
    /\ IsTyped(r1) => (r1.type = r2.type /\ r1.value = r2.value)
    /\ IsError(r1) => (DOMAIN r1.error = DOMAIN r2.error /\ r1.error = r2.error)

\* Equality of two outcomes: the same typed result, or the same kind of
\* error (an error message may quote the text it was given).
SameOutcome(r1, r2) ==
    /\ DOMAIN r1 = DOMAIN r2
    /\ IsTyped(r1) => (r1.type = r2.type /\ r1.value = r2.value)
    /\ IsError(r1) => r1.error.msg = r2.error.msg

Returned(c) == pc[c] = "returned"

\* The joined records that pass the predicates the text contains.
AskedRecords(q) ==
    Filter(Merge(data_a, data_b), AsksClicked(q), AsksPurchased(q))

KeysOf(frame) == {frame.rows[i].email_hashed : i \in 1..Len(frame.rows)}

UniqueKeys(frame) ==
    \A i, j \in 1..Len(frame.rows) :
        frame.rows[i].email_hashed = frame.rows[j].email_hashed => i = j

\* The same text without table aliases on its column references.
StripAliases(q) ==
    SelectSeq(q, LAMBDA x : UpperLexeme(x) \notin {"T1.", "T2."})

AliasOf(x) ==
    CASE UpperLexeme(x) \in {"EMAIL_HASHED", "USER_ID", "CLICKED_AD", "CITY"}
            -> "T1."
      [] UpperLexeme(x) \in {"PURCHASED", "PURCHASE_VALUE"} -> "T2."
      [] OTHER -> ""

\* The same text with a table alias on every column reference.
AddAliases(q) ==
    LET aliased(i) == i > 1 /\ UpperLexeme(q[i - 1]) \in {"T1.", "T2."}
        wide == [k \in 1..(2 * Len(q)) |->
                    IF k % 2 = 0 THEN q[k \div 2]
                    ELSE IF aliased((k + 1) \div 2) THEN ""
                    ELSE AliasOf(q[(k + 1) \div 2])]
    IN  SelectSeq(wide, LAMBDA x : x # "")

AliasSpellings(q) == {StripAliases(q), AddAliases(q)}

\* Every whitespace lexeme replaced by a tab.
Tabbed(q) == [i \in 1..Len(q) |-> IF q[i] \in Whitespace THEN "\t" ELSE q[i]]

\* Every whitespace run made one lexeme longer.
Widened(q) ==
    LET wide == [k \in 1..(2 * Len(q)) |->
                    IF k % 2 = 1 THEN q[(k + 1) \div 2]
                    ELSE IF q[k \div 2] \in Whitespace THEN "\n" ELSE ""]
    IN  SelectSeq(wide, LAMBDA x : x # "")

\* Texts that differ from q only in letter case or in their whitespace
\* runs.
Respellings(q) ==
    { Upper(q), Lower(q), SplitJoin(q), Tabbed(q), Widened(q),
      <<" ", "\n">> \o q \o <<"\t">>, Lower(Tabbed(SplitJoin(q))) }

IsSpecFixture == df_a = FixtureA /\ df_b = FixtureB

----------------------------------------------------------------------------
(* Claims.                                                                 *)

\* C1: in dcr2.py every query whose select list includes email_hashed
\* (aliased or not, in any position), user_id or * is answered with the
\* privacy-violation error.
C1_RawProjectionRejected ==
    \A c \in Callers :
        (impl = "dcr2" /\ Returned(c) /\ ProjectsRawColumn(query_sql[c]))
            => SameResult(result[c], PrivacyError)

\* C2: whenever a call holds the privacy-violation error, it has not
\* merged data_a and data_b, has filtered nothing and has taken no branch
\* of the parser (both versions).
C2_RejectedBeforeJoin ==
    \A c \in Callers :
        SameResult(result[c], PrivacyError)
            => merged_data[c] = None /\ result_df[c] = None /\ plan[c] = None

C2_Witness ==
    \E c \in Callers :
        /\ Returned(c)
        /\ SameResult(result[c], PrivacyError)
        /\ Len(Merge(data_a, data_b).rows) > 0

\* C3: every returned dict is an error message, a count, a sum of
\* purchase_value or a mapping from cities to counts; no email_hashed
\* value and no row is in it.
C3_OnlyAggregatesReturned ==
    \A c \in Callers :
        Returned(c) =>
            LET r == result[c]
                merged == Merge(data_a, data_b)
                cities == {data_a.rows[i].city : i \in 1..Len(data_a.rows)}
                keys == KeysOf(data_a) \cup KeysOf(data_b)
            IN  \/ /\ IsError(r)
                   /\ DOMAIN r.error \in {{"msg"}, {"msg", "query", "tail"},
                                          {"msg", "detail"}}
                   /\ r.error.msg \in {PrivacyError.error.msg,
                                       UnrecognizedError1.error.msg,
                                       UnrecognizedError2(<<>>).error.msg,
                                       InternalError("").error.msg}
                   /\ "detail" \in DOMAIN r.error =>
                        r.error.detail = "TypeError"
                   /\ "query" \in DOMAIN r.error =>
                        r.error.query = Slice(query_normalized[c], ErrorTextLimit)
                \/ /\ IsTyped(r)
                   /\ r.type = "count"
                   /\ r.value \in 0..Len(merged.rows)
                \/ /\ IsTyped(r)
                   /\ r.type = "sum_value"
                   /\ r.value \in Nat
                \/ /\ IsTyped(r)
                   /\ r.type = "city_distribution"
                   /\ DOMAIN r.value \subseteq cities
                   /\ DOMAIN r.value \cap keys = {}
                   /\ \A x \in DOMAIN r.value : r.value[x] \in 1..Len(merged.rows)

C3_Witness ==
    \E c \in Callers :
        /\ Returned(c)
        /\ IsTyped(result[c])
        /\ result[c].type = "city_distribution"
        /\ Cardinality(DOMAIN result[c].value) = 2

\* C4: in dcr2.py a text with a COUNT(DISTINCT email_hashed) token and a
\* GROUP BY city token returns a city_distribution, whatever its
\* predicates.
C4_GroupedNeverPlainCount ==
    \A c \in Callers :
        (/\ impl = "dcr2"
         /\ Returned(c)
         /\ AsksCountDistinct(query_sql[c])
         /\ AsksGroupByCity(query_sql[c])
         /\ ~ProjectsRawColumn(query_sql[c]))
            => IsTyped(result[c]) /\ result[c].type = "city_distribution"

\* C5: in dcr2.py the aggregate of every typed result is taken over
\* exactly the joined records that pass the predicates the text contains:
\* clicked_ad = TRUE alone, purchased = TRUE alone, both, or neither.
C5_PredicatesIndependent ==
    \A c \in Callers :
        (impl = "dcr2" /\ Returned(c) /\ IsTyped(result[c]))
            => SameResult(result[c],
                          Aggregate(result[c].type, AskedRecords(query_sql[c])))

\* C6: in dcr2.py a text and its spellings with and without table aliases
\* on the column references have the same outcome on the same store.
C6_AliasesIrrelevant ==
    \A c \in Callers :
        (/\ impl = "dcr2"
         /\ Returned(c)
         /\ ~ProjectsRawColumn(query_sql[c]))
            => \A v \in AliasSpellings(query_sql[c]) :
                   SameOutcome(ExecuteQuery("dcr2", v, data_a, data_b),
                              result[c])

\* C7: in dcr2.py a text and every text that differs from it only in
\* letter case or in its whitespace runs return the same dict on the same
\* store.
C7_CaseAndWhitespaceIrrelevant ==
    \A c \in Callers :
        (impl = "dcr2" /\ Returned(c))
            => \A v \in Respellings(query_sql[c]) :
                   SameResult(ExecuteQuery("dcr2", v, data_a, data_b),
                              result[c])

C7_Witness ==
    \E c \in Callers :
        /\ impl = "dcr2"
        /\ Returned(c)
        /\ IsTyped(result[c])
        /\ result[c].type = "city_distribution"
        /\ result[c].value # <<>>
        /\ Contains(query_sql[c], <<"\n", " ", " ">>)
        /\ Cardinality(Respellings(query_sql[c]) \ {query_sql[c]}) >= 6

\* C8: when each side holds every email_hashed value at most once, the
\* merged frame has as many rows as there are keys held by both sides.
C8_JoinSizeIsIntersection ==
    \A c \in Callers :
        (/\ merged_data[c] # None
         /\ UniqueKeys(data_a)
         /\ UniqueKeys(data_b))
            => Len(merged_data[c].rows)
                   = Cardinality(KeysOf(data_a) \cap KeysOf(data_b))

C8_Witness ==
    \E c \in Callers :
        /\ merged_data[c] # None
        /\ UniqueKeys(data_a)
        /\ UniqueKeys(data_b)
        /\ Len(data_a.rows) = 2
        /\ Len(data_b.rows) = 1
        /\ Len(merged_data[c].rows) = 1

\* C9: in dcr2.py a count-distinct text with both predicates and no
\* GROUP BY returns a count of the joined records with clicked_ad and
\* purchased both true; on the fixture of the specification, 1.
C9_CountOfConverted ==
    \A c \in Callers :
        (/\ impl = "dcr2"
         /\ Returned(c)
         /\ AsksCountDistinct(query_sql[c])
         /\ AsksClicked(query_sql[c])
         /\ AsksPurchased(query_sql[c])
         /\ ~AsksGroupByCity(query_sql[c])
         /\ ~ProjectsRawColumn(query_sql[c]))
            => /\ SameResult(result[c],
                      [type |-> "count",
                       value |-> Len(Filter(Merge(data_a, data_b),
                                            TRUE, TRUE).rows)])
               /\ IsSpecFixture => result[c].value = 1

\* C10: in dcr2.py a sum text returns sum_value with the (rounded) sum of
\* purchase_value over the joined records that pass the text's
\* predicates, 0.0 when none passes, never an error.
C10_SumOverAskedRecords ==
    \A c \in Callers :
        (/\ impl = "dcr2"
         /\ Returned(c)
         /\ AsksSum(query_sql[c])
         /\ ~AsksCountDistinct(query_sql[c])
         /\ ~ProjectsRawColumn(query_sql[c]))
            => SameResult(result[c],
                   [type |-> "sum_value",
                    value |-> Round2(SumValues(AskedRecords(query_sql[c]).rows))])

\* C11: in dcr2.py a text with COUNT(DISTINCT email_hashed) and GROUP BY
\* city returns a city_distribution that maps every city among the joined
\* records passing the text's predicates to the number of those records,
\* has no city with count 0, and is the empty mapping when none passes.
C11_GroupedCountMapping ==
    \A c \in Callers :
        (/\ impl = "dcr2"
         /\ Returned(c)
         /\ AsksCountDistinct(query_sql[c])
         /\ AsksGroupByCity(query_sql[c])
         /\ ~ProjectsRawColumn(query_sql[c]))
            => LET asked == AskedRecords(query_sql[c]).rows
                   cities == {asked[i].city : i \in 1..Len(asked)}
               IN  /\ IsTyped(result[c])
                   /\ result[c].type = "city_distribution"
                   /\ DOMAIN result[c].value = cities
                   /\ \A x \in cities :
                         /\ result[c].value[x] > 0
                         /\ result[c].value[x] =
                               Cardinality({i \in 1..Len(asked) :
                                               asked[i].city = x})

\* A frame with one more row, put behind its first `at` rows.
WithRow(frame, row, at) ==
    [frame EXCEPT !.rows = SubSeq(frame.rows, 1, at) \o <<row>>
                           \o SubSeq(frame.rows, at + 1, Len(frame.rows))]

\* Rows as the constructor stores them: the sample rows and one with a
\* key of its own.
StoredRowsA ==
    {Project([cols |-> SourceColsA, rows |-> <<r>>], ColsA).rows[1] :
        r \in RowsA \cup {RowA("user_9", "k3", "Z", TRUE)}}

StoredRowsB ==
    {Project([cols |-> SourceColsB, rows |-> <<r>>], ColsB).rows[1] :
        r \in RowsB \cup {RowB("user_b_9", "k4", TRUE, 7000)}}

\* C12: a returned count, sum_value or city_distribution is what the
\* branch the call took returns on the store with one more data_a row
\* whose key no data_b row holds, or one more data_b row whose key no
\* data_a row holds, wherever the row is put (both versions; an error
\* result is built from the text alone).
C12_UnmatchedRowsIrrelevant ==
    \A c \in Callers :
        (Returned(c) /\ IsTyped(result[c])) =>
            /\ \A r \in StoredRowsA : \A at \in 0..Len(data_a.rows) :
                  r.email_hashed \notin KeysOf(data_b) =>
                      SameResult(BranchResult(plan[c], WithRow(data_a, r, at),
                                              data_b),
                                 result[c])
            /\ \A r \in StoredRowsB : \A at \in 0..Len(data_b.rows) :
                  r.email_hashed \notin KeysOf(data_a) =>
                      SameResult(BranchResult(plan[c], data_a,
                                              WithRow(data_b, r, at)),
                                 result[c])

C12_Witness ==
    \E c \in Callers :
        /\ Returned(c)
        /\ IsTyped(result[c])
        /\ result[c].type = "sum_value"
        /\ result[c].value > 0
        /\ \E r \in StoredRowsA : r.email_hashed \notin KeysOf(data_b)
        /\ \E r \in StoredRowsB :
              /\ r.email_hashed \notin KeysOf(data_a)
              /\ r.purchased = TRUE

\* C13: a call that is given the text of the call before it on the same
\* instance returns the dict that call returned (both versions).
C13_SameTextSameResult ==
    \A c \in Callers :
        (/\ Returned(c)
         /\ previous # None
         /\ previous.query = query_sql[c])
            => SameResult(result[c], previous.result)

C13_Witness ==
    \E c \in Callers :
        /\ Returned(c)
        /\ previous # None
        /\ previous.query = query_sql[c]
        /\ IsTyped(result[c])
        /\ result[c].type = "count"
        /\ result[c].value = 2
        /\ Len(data_b.rows) = 2
        /\ ~UniqueKeys(data_b)

\* The source columns the constructor does not select.
ExtraColumns == {"user_id", "email_original"}

\* The frame with other values in its extra source columns.
Scrubbed(frame) ==
    [frame EXCEPT !.rows =
        [i \in 1..Len(frame.rows) |->
            [col \in DOMAIN frame.rows[i] |->
                IF col \in ExtraColumns THEN "withheld"
                ELSE frame.rows[i][col]]]]

\* C14: a constructed instance holds exactly the columns email_hashed,
\* clicked_ad, ad_campaign_id, city of data_a and email_hashed, purchased,
\* purchase_value of data_b, and what it holds and every dict it returns
\* are the same when the source frames have other user_id and
\* email_original values (both versions).
C14_ProjectionAtConstruction ==
    dcr = "ready" =>
        /\ data_a.cols = {"email_hashed", "clicked_ad", "ad_campaign_id", "city"}
        /\ data_b.cols = {"email_hashed", "purchased", "purchase_value"}
        /\ \A i \in 1..Len(data_a.rows) : DOMAIN data_a.rows[i] = data_a.cols
        /\ \A i \in 1..Len(data_b.rows) : DOMAIN data_b.rows[i] = data_b.cols
        /\ data_a = Project(Scrubbed(df_a), ColsA)
        /\ data_b = Project(Scrubbed(df_b), ColsB)
        /\ \A c \in Callers :
              Returned(c) =>
                  SameResult(result[c],
                             ExecuteNormalized(impl, query_normalized[c],
                                               Project(Scrubbed(df_a), ColsA),
                                               Project(Scrubbed(df_b), ColsB)))

C14_Witness ==
    \E c \in Callers :
        /\ dcr = "ready"
        /\ Returned(c)
        /\ IsTyped(result[c])
        /\ result[c].type = "city_distribution"
        /\ result[c].value # <<>>
        /\ ExtraColumns \subseteq df_a.cols
        /\ ExtraColumns \subseteq df_b.cols
        /\ Scrubbed(df_a) # df_a
        /\ Scrubbed(df_b) # df_b

\* C15: when data_a or data_b lacks one of the columns the constructor
\* selects, construction ends in the error, no instance is handed out and
\* no call is ever made on one; so too when only data_b lacks a column
\* and self.data_a was already assigned (both versions).
C15_SchemaErrorNoStore ==
    (dcr # "none" /\ ~(ColsA \subseteq df_a.cols /\ ColsB \subseteq df_b.cols))
        => /\ dcr = "schema_error"
           /\ data_b = None
           /\ \A c \in Callers :
                 /\ pc[c] = "idle"
                 /\ query_sql[c] = None
                 /\ merged_data[c] = None
                 /\ result[c] = None

C15_Witness ==
    /\ dcr = "schema_error"
    /\ ColsA \subseteq df_a.cols
    /\ ~(ColsB \subseteq df_b.cols)
    /\ data_a # None

\* C16: in dcr2.py a text that passes the security rule and has neither
\* COUNT(DISTINCT email_hashed) (grouped or not) nor SUM(purchase_value),
\* with or without aliases, returns the unrecognized-query error with its
\* normalised text, never a count, sum_value or city_distribution.
C16_UnrecognizedNeverGuessed ==
    \A c \in Callers :
        (/\ impl = "dcr2"
         /\ Returned(c)
         /\ ~PrivacyViolation(query_normalized[c])
         /\ ~AsksCountDistinct(query_sql[c])
         /\ ~AsksSum(query_sql[c]))
            => /\ IsError(result[c])
               /\ result[c].error.msg = UnrecognizedError2(<<>>).error.msg
               /\ result[c].error.query.text = Canon(query_sql[c])

\* C17: a call never ends in an exception: what the caller gets is a
\* dict with the one entry 'error', or a dict with the entries 'type' (count,
\* sum_value or city_distribution) and 'value'; a rejected text, an
\* unrecognized text and an exception inside the try block all end in the
\* first (both versions).
C17_AlwaysOneVariant ==
    \A c \in Callers :
        Returned(c) =>
            LET r == result[c]
            IN  /\ "raised" \notin DOMAIN r
                /\ \/ DOMAIN r = {"error"}
                   \/ /\ DOMAIN r = {"type", "value"}
                      /\ r.type \in {"count", "sum_value", "city_distribution"}
                /\ PrivacyViolation(query_normalized[c]) => IsError(r)
                /\ (plan[c] = None) => IsError(r)
                /\ (/\ plan[c] # None
                    /\ plan[c].shape = "sum_value"
                    /\ ~Summable(IF plan[c].assigns THEN result_df[c].rows
                                 ELSE merged_data[c].rows))
                       => r = InternalError("TypeError")

C17_Witness ==
    \E c \in Callers :
        /\ Returned(c)
        /\ result[c] = InternalError("TypeError")
        /\ plan[c] # None
        /\ merged_data[c] # None

\* C18: a call that returns the privacy-violation error leaves data_a
\* and data_b as the constructor stored them, and the call after it
\* returns the dict its text returns on a newly constructed instance
\* (both versions).
C18_RejectionAffectsOnlyItself ==
    LET rejected(r) == r # None /\ SameResult(r, PrivacyError)
        stored_a == Project(df_a, ColsA)
        stored_b == Project(df_b, ColsB)
    IN  /\ (\E c \in Callers : rejected(result[c]))
              => data_a = stored_a /\ data_b = stored_b
        /\ (previous # None /\ rejected(previous.result))
              => /\ data_a = stored_a
                 /\ data_b = stored_b
                 /\ \A c \in Callers :
                       Returned(c) =>
                           SameResult(result[c],
                                      ExecuteQuery(impl, query_sql[c],
                                                   stored_a, stored_b))

C18_Witness ==
    \E c \in Callers :
        /\ previous # None
        /\ SameResult(previous.result, PrivacyError)
        /\ Returned(c)
        /\ IsTyped(result[c])
        /\ result[c].type = "sum_value"
        /\ result[c].value > 0

\* C19: with the calls of two callers on one instance interleaved step by
\* step, every call returns the dict its text returns when it runs alone,
\* and data_a and data_b stay as the constructor stored them (both
\* versions).
C19_InterleavedAsAlone ==
    /\ dcr = "ready" =>
          /\ data_a = Project(df_a, ColsA)
          /\ data_b = Project(df_b, ColsB)
    /\ \A c \in Callers :
          Returned(c) =>
              SameResult(result[c],
                         ExecuteQuery(impl, query_sql[c],
                                      Project(df_a, ColsA),
                                      Project(df_b, ColsB)))

\* One call has returned a sum while the other, with another text, is
\* between its merge and its return.
C19_Witness ==
    \E c, d \in Callers :
        /\ c # d
        /\ Returned(c)
        /\ IsTyped(result[c])
        /\ result[c].type = "sum_value"
        /\ pc[d] \in {"parse", "aggregate"}
        /\ query_sql[d] # query_sql[c]
        /\ Parse(impl, query_normalized[d]).shape = "city_distribution"

\* C20: once a call on an instance has merged data_a and data_b, no later
\* call on that instance merges them again (dcr2.py).
C20_JoinMaterializedOnce ==
    \A c \in Callers :
        (impl = "dcr2" /\ previous # None /\ previous.merged)
            => merged_data[c] = None

\* The joined records with clicked_ad and purchased both true.
Converted == Filter(Merge(data_a, data_b), TRUE, TRUE).rows

\* C21: in dcr2.py the four texts generate_query writes are answered so:
\* the count text with the number of joined records that clicked and
\* purchased, the sum text with the rounded sum of their purchase_value
\* (0.0 when there is none), the grouped text with their number per city,
\* and the 'SELECT email_hashed' text with the privacy-violation error.
C21_AgentQueriesAnswered ==
    \A c \in Callers :
        (impl = "dcr2" /\ Returned(c)) =>
            /\ query_sql[c] = GenerateQuery2("count") =>
                  SameResult(result[c],
                             [type |-> "count", value |-> Len(Converted)])
            /\ query_sql[c] = GenerateQuery2("sum") =>
                  SameResult(result[c],
                             [type |-> "sum_value",
                              value |-> Round2(SumValues(Converted))])
            /\ query_sql[c] = GenerateQuery2("city") =>
                  SameResult(result[c],
                             [type |-> "city_distribution",
                              value |->
                                 [x \in {Converted[i].city :
                                            i \in 1..Len(Converted)} |->
                                     Cardinality({i \in 1..Len(Converted) :
                                                     Converted[i].city = x})]])
            /\ query_sql[c] = GenerateQuery2("emails") =>
                  SameResult(result[c], PrivacyError)

\* The grouped text has returned a city from a join with a record that
\* did not convert.
C21_Witness ==
    \E c \in Callers :
        /\ impl = "dcr2"
        /\ Returned(c)
        /\ query_sql[c] = GenerateQuery2("city")
        /\ IsTyped(result[c])
        /\ DOMAIN result[c].value # {}
        /\ Len(Merge(data_a, data_b).rows) > Len(Converted)

\* C22: in dcr.py a text holding COUNT(DISTINCT email_hashed) and
\* 'WHERE T1.clicked_ad = TRUE AND T2.purchased = TRUE' is answered with a
\* count, or with a city_distribution when it also holds 'GROUP BY
\* T1.city'; and each of the three texts dcr.py's generate_query writes is
\* answered with a typed result.
C22_OriginalAnswersItsAgent ==
    \A c \in Callers :
        (impl = "dcr" /\ Returned(c)) =>
            /\ ( /\ Contains(Upper(query_sql[c]), CountDistinctPlain)
                 /\ Contains(Upper(query_sql[c]), WhereBoth)
                 /\ ~ PrivacyViolation(Upper(query_sql[c])) ) =>
                    /\ IsTyped(result[c])
                    /\ result[c].type =
                          IF Contains(Upper(query_sql[c]), GroupByT1City)
                          THEN "city_distribution" ELSE "count"
            /\ (\E g \in Goals1 : query_sql[c] = GenerateQuery1(g)) =>
                    IsTyped(result[c])

\* The key values of the stores, and one more to rename into.
KeyValues == {"k1", "k2"}

KeyImages == KeyValues \cup {"k3"}

\* The injective renamings of the key values other than the identity.
Renamings ==
    {f \in [KeyValues -> KeyImages] :
        /\ \A x, y \in KeyValues : f[x] = f[y] => x = y
        /\ \E x \in KeyValues : f[x] # x}

\* The frame with every email_hashed replaced by its image.
RenameKeys(frame, f) ==
    [cols |-> frame.cols,
     rows |-> [i \in 1..Len(frame.rows) |->
                  [frame.rows[i] EXCEPT !.email_hashed = f[@]]]]

\* C23: a result depends on the key values only through their equality:
\* the same text on the two stores with every email_hashed replaced by its
\* image under one injective renaming returns the same dict.
C23_KeysOnlyCompared ==
    \A c \in Callers :
        Returned(c) =>
            \A f \in Renamings :
                SameResult(ExecuteNormalized(impl, query_normalized[c],
                                             RenameKeys(data_a, f),
                                             RenameKeys(data_b, f)),
                           result[c])

\* A typed result over a join of both key values has been returned by
\* dcr2.py.
C23_Witness ==
    \E c \in Callers :
        /\ impl = "dcr2"
        /\ Returned(c)
        /\ IsTyped(result[c])
        /\ KeysOf(Merge(data_a, data_b)) = KeyValues

\* C24: in dcr2.py, on any pair of stores (a key may occur in more than
\* one record of a side), the value returned for a COUNT(DISTINCT
\* email_hashed) text is the number of distinct email_hashed values among
\* the joined records that pass the text's predicates.  Stated for the
\* calls whose mask is the one the text asks for.
C24_CountsDistinctKeys ==
    \A c \in Callers :
        (/\ impl = "dcr2"
         /\ Returned(c)
         /\ AsksCountDistinct(query_sql[c])
         /\ IsTyped(result[c])
         /\ result[c].type = "count"
         /\ plan[c].byClicked = AsksClicked(query_sql[c])
         /\ plan[c].byPurchased = AsksPurchased(query_sql[c]))
            => result[c].value =
                  Cardinality(KeysOf(AskedRecords(query_sql[c])))

\* C25: dcr2.py answers as dcr.py did wherever dcr.py answered: on every
\* text and pair of stores, a typed result of dcr.py is the result of
\* dcr2.py, type and value, and a privacy-violation error of dcr.py is a
\* privacy-violation error of dcr2.py.
C25_CorrectionKeepsAnswers ==
    \A c \in Callers :
        (impl = "dcr" /\ Returned(c)) =>
            /\ IsTyped(result[c]) =>
                  SameResult(ExecuteQuery("dcr2", query_sql[c], data_a, data_b),
                             result[c])
            /\ SameResult(result[c], PrivacyError) =>
                  SameResult(ExecuteQuery("dcr2", query_sql[c], data_a, data_b),
                             PrivacyError)

====
